---- MODULE Spec2Model ----
(***************************************************************************)
(* Model of nekko1119/nhs, a minimal HTTP/1.1 server.                      *)
(*                                                                         *)
(* The module models the state-machine variant (src/unnamed/part_000):     *)
(* nek::socket, nek::request::parse_and_build, nek::response::send and the *)
(* accept loop of nek::server::listen.  Byte strings are sequences of      *)
(* one-character strings, so that a chunk boundary, a '\r' or a '?' is a   *)
(* position in a sequence.                                                 *)
(***************************************************************************)
EXTENDS Integers, Sequences, FiniteSets, TLC

VARIABLES
    pc,             \* position of the background thread of server::listen
    sock_,          \* socket::sock_ (listening descriptor, 0 = never created)
    accepted_sock_, \* socket::accepted_sock_ (0 = nothing accepted)
    fds,            \* descriptors the process holds open (OS view)
    closes,         \* descriptor -> ::close calls on it since it was created
    err,            \* the exception that left the last operation, "none" if none
    req,            \* the request object of the current cycle
    res,            \* the response object of the current cycle
    callbacks_,     \* server::callbacks_: method -> (pattern -> handler)
    todo,           \* patterns of the inner map the dispatch loop has not visited
    invoked,        \* handlers invoked in this cycle, with the parser state seen
    wire,           \* writes of this cycle: descriptor, bytes, body given to send
    stream,         \* the bytes the peer sends on the current connection
    pos,            \* how many of them parse_and_build has consumed
    closed,         \* the peer has sent all of stream and closed
    wouldblock,     \* EAGAIN results of recv in this cycle
    nconn,          \* connections accepted so far
    tail,           \* bytes fed after the end of stream (parser harness)
    caller,         \* position of the thread that called server::listen
    port_           \* socket::port_ of the sock of the background thread

vars == <<pc, sock_, accepted_sock_, fds, closes, err, req, res, callbacks_, todo,
          invoked, wire, stream, pos, closed, wouldblock, nconn, tail,
          caller, port_>>

-----------------------------------------------------------------------------
(* Bounds of the model.                                                    *)

\* connections the accept loop serves in one run
MaxConns == 2
\* EAGAIN results recv may give within one cycle
MaxWouldBlock == 1
\* bytes the parser harness feeds after the end of a stream
MaxTail == 2
\* descriptors the socket harness lets the process hold
MaxFds == 2
\* writes the socket harness makes
MaxWrites == 1
\* close calls the socket harness makes on one descriptor
MaxCloses == 2

\* sizeof(buffer) - 1 in server::listen: the most one recv returns
RecvMax == 255
\* the port main passes to server::listen
Port == 3000
\* socket::port_ of a default-constructed socket
DefaultPort == 80

-----------------------------------------------------------------------------
(* Byte strings.                                                           *)

CR == "\r"
LF == "\n"
SP == " "
CRLF == <<CR, LF>>

UpperCase == <<"A", "B", "C", "D", "E", "F", "G", "H", "I", "J", "K", "L", "M",
               "N", "O", "P", "Q", "R", "S", "T", "U", "V", "W", "X", "Y", "Z">>
LowerCase == <<"a", "b", "c", "d", "e", "f", "g", "h", "i", "j", "k", "l", "m",
               "n", "o", "p", "q", "r", "s", "t", "u", "v", "w", "x", "y", "z">>

\* std::tolower on one byte
tolower(c) ==
    IF \E i \in 1..Len(UpperCase) : UpperCase[i] = c
    THEN LowerCase[CHOOSE i \in 1..Len(UpperCase) : UpperCase[i] = c]
    ELSE c

DecDigit == <<"0", "1", "2", "3", "4", "5", "6", "7", "8", "9">>

\* operator<< of an unsigned integer: its decimal digits
RECURSIVE to_string(_)
to_string(n) ==
    IF n < 10 THEN <<DecDigit[n + 1]>>
    ELSE to_string(n \div 10) \o <<DecDigit[(n % 10) + 1]>>

\* does the byte string s start with the byte string p
StartsWith(s, p) == Len(s) >= Len(p) /\ SubSeq(s, 1, Len(p)) = p

\* the first position at which p occurs in s, 0 if none
Search(s, p) ==
    LET hits == {i \in 1..(Len(s) - Len(p) + 1) : SubSeq(s, i, i + Len(p) - 1) = p}
    IN IF hits = {} THEN 0 ELSE CHOOSE i \in hits : \A j \in hits : i <= j

-----------------------------------------------------------------------------
(* nek::request and its incremental parser.                                *)

parse_state == {"method", "path", "query", "protocol", "http_version",
                "header_key", "header_value", "body", "cr", "crlf", "crlfcr",
                "done", "invalid"}

\* request() = default: every string and the header map empty, state_ = method
FreshRequest ==
    [headers |-> <<>>, method |-> <<>>, original_url |-> <<>>, path |-> <<>>,
     protocol |-> <<>>, hostname |-> <<>>, body |-> <<>>, http_version |-> <<>>,
     state |-> "method"]

\* the local std::pair<std::string, std::string> header_buffer of one call
EmptyHeaderBuffer == [first |-> <<>>, second |-> <<>>]

\* operator[] assignment: a later value replaces the entry
MapInsertOverwrite(m, k, v) ==
    [x \in DOMAIN m \cup {k} |-> IF x = k THEN v ELSE m[x]]

\* std::unordered_map::insert: a key already present keeps its value
MapInsert(m, k, v) ==
    IF k \in DOMAIN m THEN m
    ELSE [x \in DOMAIN m \cup {k} |-> IF x = k THEN v ELSE m[x]]

\* The cases of the switch on state_ in parse_and_build.
\* a = [r |-> the request, hb |-> header_buffer], it = buffer[i]
case_method(a, it) ==
    IF it = SP THEN [a EXCEPT !.r.state = "path"]
    ELSE [a EXCEPT !.r.method = Append(@, it)]

case_path(a, it) ==
    IF it = SP
    THEN [a EXCEPT !.r.state = "protocol", !.r.original_url = a.r.path]
    ELSE IF it = "?" THEN [a EXCEPT !.r.state = "query"]
    ELSE [a EXCEPT !.r.path = Append(@, it)]

case_query(a, it) ==
    IF it = SP
    THEN [a EXCEPT !.r.state = "protocol", !.r.original_url = a.r.path]
    ELSE a

case_protocol(a, it) ==
    IF it = "/" THEN [a EXCEPT !.r.state = "http_version"]
    ELSE [a EXCEPT !.r.protocol = Append(@, it)]

case_http_version(a, it) ==
    IF it = CR THEN [a EXCEPT !.r.state = "cr"]
    ELSE [a EXCEPT !.r.http_version = Append(@, it)]

\* the name kept as received
case_header_key_Keep(a, it) ==
    IF it = ":" THEN [a EXCEPT !.r.state = "header_value"]
    ELSE [a EXCEPT !.hb.first = Append(@, it)]

case_header_key(a, it) ==
    IF it = ":" THEN [a EXCEPT !.r.state = "header_value"]
    ELSE [a EXCEPT !.hb.first = Append(@, tolower(it))]

\* a value that keeps its leading space
case_header_value_NoTrim(a, it) ==
    IF it = CR
    THEN [r |-> [a.r EXCEPT !.headers = MapInsert(@, a.hb.first, a.hb.second),
                            !.state = "cr"],
          hb |-> EmptyHeaderBuffer]
    ELSE [a EXCEPT !.hb.second = Append(@, it)]

case_header_value(a, it) ==
    IF it = SP /\ a.hb.second = <<>> THEN a
    ELSE IF it = CR
    THEN [r |-> [a.r EXCEPT !.headers = MapInsert(@, a.hb.first, a.hb.second),
                            !.state = "cr"],
          hb |-> EmptyHeaderBuffer]
    ELSE [a EXCEPT !.hb.second = Append(@, it)]

case_body(a, it) == [a EXCEPT !.r.body = Append(@, it)]

case_cr_Lenient(a, it) == [a EXCEPT !.r.state = "crlf"]
case_cr(a, it) ==
    IF it = LF THEN [a EXCEPT !.r.state = "crlf"]
    ELSE [a EXCEPT !.r.state = "invalid"]

case_crlf(a, it) ==
    IF it = CR THEN [a EXCEPT !.r.state = "crlfcr"]
    ELSE [a EXCEPT !.hb.first = Append(@, tolower(it)), !.r.state = "header_key"]

\* the header terminator leading on to the body
case_crlfcr_Body(a, it) ==
    IF it = LF THEN [a EXCEPT !.r.state = "body"]
    ELSE [a EXCEPT !.r.state = "invalid"]

case_crlfcr(a, it) ==
    IF it = LF THEN [a EXCEPT !.r.state = "done"]
    ELSE [a EXCEPT !.r.state = "invalid"]

case_done(a, it) == [a EXCEPT !.r.state = "done"]

\* default: break (state_ is invalid)
case_default(a, it) == a

\* one iteration of the for loop of parse_and_build: the switch on state_
ParseByte(a, it) ==
    CASE a.r.state = "method" -> case_method(a, it)
      [] a.r.state = "path" -> case_path(a, it)
      [] a.r.state = "query" -> case_query(a, it)
      [] a.r.state = "protocol" -> case_protocol(a, it)
      [] a.r.state = "http_version" -> case_http_version(a, it)
      [] a.r.state = "header_key" -> case_header_key(a, it)
      [] a.r.state = "header_value" -> case_header_value(a, it)
      [] a.r.state = "body" -> case_body(a, it)
      [] a.r.state = "cr" -> case_cr(a, it)
      [] a.r.state = "crlf" -> case_crlf(a, it)
      [] a.r.state = "crlfcr" -> case_crlfcr(a, it)
      [] a.r.state = "done" -> case_done(a, it)
      [] OTHER -> case_default(a, it)

\* the for loop of parse_and_build over buffer[0 .. recv_size)
RECURSIVE ParseLoop(_, _)
ParseLoop(a, buffer) ==
    IF buffer = <<>> THEN a
    ELSE ParseLoop(ParseByte(a, Head(buffer)), Tail(buffer))

\* request::parse_and_build(buffer, recv_size): header_buffer is a local of
\* the call, so it starts empty and is dropped when the call returns
parse_and_build_Restart(r, buffer) ==
    ParseLoop([r |-> [r EXCEPT !.state = "method"], hb |-> EmptyHeaderBuffer], buffer).r
parse_and_build(r, buffer) ==
    ParseLoop([r |-> r, hb |-> EmptyHeaderBuffer], buffer).r

-----------------------------------------------------------------------------
(* nek::response.                                                          *)

\* response(request, sock): status_ = 200, status_message_ = "", no headers
FreshResponse == [headers |-> <<>>, status |-> 200, status_message |-> <<>>]

S_OK == <<"O", "K">>
S_BadRequest == <<"B", "a", "d", " ", "R", "e", "q", "u", "e", "s", "t">>
S_NotFound == <<"N", "o", "t", " ", "F", "o", "u", "n", "d">>
S_ContentLength == <<"C", "o", "n", "t", "e", "n", "t", "-", "L", "e", "n", "g", "t", "h">>
S_ContentType == <<"C", "o", "n", "t", "e", "n", "t", "-", "T", "y", "p", "e">>
S_TextHtml == <<"t", "e", "x", "t", "/", "h", "t", "m", "l">>
S_Connection == <<"C", "o", "n", "n", "e", "c", "t", "i", "o", "n">>
S_KeepAlive == <<"K", "e", "e", "p", "-", "A", "l", "i", "v", "e">>
S_Localhost == <<"l", "o", "c", "a", "l", "h", "o", "s", "t">>
ColonSpace == <<":", " ">>

\* a table that answers OK for every code
default_status_messages_AllOK(code) == S_OK

\* response::default_status_messages, read with operator[]: a code that is
\* not in the table reads as the empty string
default_status_messages(code) ==
    CASE code = 200 -> S_OK
      [] code = 400 -> S_BadRequest
      [] code = 404 -> S_NotFound
      [] OTHER -> <<>>

\* the orders in which a range-for may visit the keys of an unordered_map
RECURSIVE Orders(_)
Orders(S) ==
    IF S = {} THEN {<<>>}
    ELSE UNION {{<<k>> \o o : o \in Orders(S \ {k})} : k \in S}

\* the header lines of send, for one iteration order of headers_
RECURSIVE HeaderLines(_, _)
HeaderLines(h, order) ==
    IF order = <<>> THEN <<>>
    ELSE Head(order) \o ColonSpace \o h[Head(order)] \o CRLF
         \o HeaderLines(h, Tail(order))

\* the first line send writes
StatusLine(rq, rs) ==
    LET message == IF rs.status_message # <<>> THEN rs.status_message
                   ELSE default_status_messages(rs.status)
    IN rq.protocol \o <<"/">> \o rq.http_version \o <<SP>> \o to_string(rs.status)
       \o <<SP>> \o message \o CRLF

\* Content-Length and Content-Type follow the headers when the body is not empty
BodyHeadersMutant(body) == S_ContentLength \o ColonSpace \o to_string(Len(body)) \o CRLF
                           \o S_ContentType \o ColonSpace \o S_TextHtml \o CRLF
BodyHeaders(body) ==
    IF body # <<>>
    THEN S_ContentLength \o ColonSpace \o to_string(Len(body)) \o CRLF
         \o S_ContentType \o ColonSpace \o S_TextHtml \o CRLF
    ELSE <<>>

\* response::send(body): the bytes handed to socket::send, one per iteration
\* order of headers_
send_bytes(rq, rs, body) ==
    {StatusLine(rq, rs) \o HeaderLines(rs.headers, order) \o BodyHeaders(body)
     \o S_Connection \o ColonSpace \o S_KeepAlive \o CRLF
     \o CRLF
     \o body : order \in Orders(DOMAIN rs.headers)}

\* response::set_header(header, value).  It reserves a std::string and lets
\* std::transform write through begin() without growing it: a header name of
\* one byte or more is written past size(), which is undefined.  The string
\* keeps size 0, so a build that goes on emplaces under the empty key (a key
\* already present keeps its value); a checked build stops the process.
\* The result: the responses possible, and whether the process may stop.
set_header(rs, header, value) ==
    [go |-> {[rs EXCEPT !.headers = MapInsert(@, <<>>, value)]},
     abort |-> header # <<>>]

\* response::get_header(header): the same reserve and transform, then
\* headers_.at(lower_header), which throws std::out_of_range for no entry
get_header(rs, header) ==
    [go |-> IF <<>> \in DOMAIN rs.headers
            THEN {[err |-> "none", ret |-> rs.headers[<<>>]]}
            ELSE {[err |-> "out_of_range", ret |-> <<>>]},
     abort |-> header # <<>>]

-----------------------------------------------------------------------------
(* nek::socket.  s = [sock_, accepted_sock_, fds, closes] is the object    *)
(* and the descriptors the process holds; os is what the system answers.   *)
(* The result adds err (the exception thrown, "none" if none) and io       *)
(* (whether a system call was made).                                       *)

\* the lowest descriptor the process does not hold (0, 1, 2 are standard)
NewFd(open) == CHOOSE n \in 3..(3 + Cardinality(open)) :
                   n \notin open /\ \A m \in 3..(n - 1) : m \in open

SockState ==
    [sock_ |-> sock_, accepted_sock_ |-> accepted_sock_, fds |-> fds,
     closes |-> closes]

Outcome(s, e, io) ==
    [sock_ |-> s.sock_, accepted_sock_ |-> s.accepted_sock_, fds |-> s.fds,
     closes |-> s.closes, err |-> e, io |-> io]

\* the system hands out descriptor fd: a new creation of that number
Created(s, fd) ==
    [s EXCEPT !.fds = @ \cup {fd},
              !.closes = [x \in DOMAIN @ \ {fd} |-> @[x]]]

\* socket::connect(): ::socket, ::bind, ::ioctl(FIONBIO)
socket_connect(s, os) ==
    IF os = "socket_error"
    THEN Outcome([s EXCEPT !.sock_ = -1], "system_error", TRUE)
    ELSE LET fd == NewFd(s.fds)
             t == [Created(s, fd) EXCEPT !.sock_ = fd]
         IN IF os = "bind_error" THEN Outcome(t, "system_error", TRUE)
            ELSE Outcome(t, "none", TRUE)

\* socket::listen()
socket_listen(s, os) ==
    IF s.sock_ = 0 THEN Outcome(s, "logic_error", FALSE)
    ELSE IF os = "error" THEN Outcome(s, "system_error", TRUE)
    ELSE Outcome(s, "none", TRUE)

\* socket::accept(), one pass of its while loop: "eagain" leaves the thread
\* in the loop with accepted_sock_ = -1
socket_accept(s, os) ==
    IF s.sock_ = 0 THEN Outcome(s, "logic_error", FALSE)
    ELSE IF os = "conn"
    THEN LET fd == NewFd(s.fds)
         IN Outcome([Created(s, fd) EXCEPT !.accepted_sock_ = fd], "none", TRUE)
    ELSE IF os = "eagain"
    THEN Outcome([s EXCEPT !.accepted_sock_ = -1], "eagain", TRUE)
    ELSE Outcome([s EXCEPT !.accepted_sock_ = -1], "system_error", TRUE)

\* socket::recv(buffer, size)
socket_recv(s, os) ==
    IF s.accepted_sock_ = 0 THEN Outcome(s, "logic_error", FALSE)
    ELSE IF os = "error" THEN Outcome(s, "system_error", TRUE)
    ELSE IF os = "eagain" THEN Outcome(s, "eagain", TRUE)
    ELSE Outcome(s, "none", TRUE)

\* socket::send(buf): ::send on accepted_sock_, whatever it holds
socket_send(s, os) ==
    IF os = "error" THEN Outcome(s, "system_error", TRUE)
    ELSE Outcome(s, "none", TRUE)

\* the descriptor numbers close() passes to ::close: each member that is
\* not 0 (a member left at -1 by a failed call names no descriptor)
ClosePassed(s) == {x \in {s.accepted_sock_, s.sock_} : x > 0}

\* socket::close(), run by ~socket(): ::close on accepted_sock_ and on sock_
\* when not 0; the members keep their values
socket_close(s) ==
    [s EXCEPT !.fds = @ \ ClosePassed(s),
              !.closes = [x \in DOMAIN s.closes \cup ClosePassed(s) |->
                            (IF x \in DOMAIN s.closes THEN s.closes[x] ELSE 0)
                            + (IF s.accepted_sock_ = x THEN 1 ELSE 0)
                            + (IF s.sock_ = x THEN 1 ELSE 0)]]

-----------------------------------------------------------------------------
(* Route patterns and handlers.                                            *)

\* std::regex_match(s, std::regex{p}) for the patterns the model registers:
\* literal bytes, '.' (any byte) and a postfix '*'; the whole of s must match
\* std::regex_search anchored at the start: a match of a prefix of s
RECURSIVE regex_match_Prefix(_, _)
regex_match_Prefix(s, p) ==
    IF p = <<>> THEN TRUE
    ELSE LET first == s # <<>> /\ (Head(p) = "." \/ Head(p) = Head(s))
         IN IF Len(p) >= 2 /\ p[2] = "*"
            THEN regex_match_Prefix(s, SubSeq(p, 3, Len(p)))
                 \/ (first /\ regex_match_Prefix(Tail(s), p))
            ELSE first /\ regex_match_Prefix(Tail(s), Tail(p))

RECURSIVE regex_match(_, _)
regex_match(s, p) ==
    IF p = <<>> THEN s = <<>>
    ELSE LET first == s # <<>> /\ (Head(p) = "." \/ Head(p) = Head(s))
         IN IF Len(p) >= 2 /\ p[2] = "*"
            THEN regex_match(s, SubSeq(p, 3, Len(p)))
                 \/ (first /\ regex_match(Tail(s), p))
            ELSE first /\ regex_match(Tail(s), Tail(p))

\* std::regex{p} throws std::regex_error: a '(' that is never closed
regex_throws(p) ==
    \E i \in 1..Len(p) : p[i] = "(" /\ ~\E j \in (i + 1)..Len(p) : p[j] = ")"

S_GET == <<"G", "E", "T">>
P_Root == <<"/">>
P_Any == <<"/", ".", "*">>
P_Slashes == <<"/", "*">>
P_Foo == <<"/", "f", "o", "o">>
P_Bad == <<"(">>
B_Index == <<"h", "i">>
B_Other == <<"n", "o", "p", "e", "h", "e", "r", "e", "a", "t", "a", "l", "l">>
H_Name == <<"X", "-", "A">>
H_Value == <<"1">>

\* what a registered callback does with (req, res), as the calls it makes
HandlerOps ==
    [index    |-> <<[op |-> "send", a |-> B_Index, b |-> <<>>]>>,
     notfound |-> <<[op |-> "status", a |-> 404, b |-> <<>>],
                    [op |-> "send", a |-> B_Other, b |-> <<>>]>>,
     header   |-> <<[op |-> "set_header", a |-> H_Name, b |-> H_Value]>>,
     empty    |-> <<[op |-> "status", a |-> 500, b |-> <<>>],
                    [op |-> "send", a |-> <<>>, b |-> <<>>]>>,
     throws   |-> <<[op |-> "throw", a |-> <<>>, b |-> <<>>]>>]

\* the inner maps (pattern -> callback) registered with server::get
RouteTables ==
    {[p \in {P_Root} |-> "index"],
     [p \in {P_Root, P_Any} |-> IF p = P_Root THEN "index" ELSE "notfound"],
     [p \in {P_Root, P_Any, P_Slashes} |->
         IF p = P_Root THEN "header" ELSE IF p = P_Any THEN "empty" ELSE "notfound"],
     [p \in {P_Foo, P_Bad} |-> IF p = P_Foo THEN "throws" ELSE "index"]}

\* one call a callback makes.  h = [res, wire, threw]; fd = accepted_sock_;
\* fail: whether the system may refuse the write
RunOp(op, h, rq, fd, fail) ==
    CASE op.op = "send" ->
           {[h EXCEPT !.wire = Append(@, [fd |-> fd, data |-> b, body |-> op.a])] :
                b \in send_bytes(rq, h.res, op.a)}
           \cup (IF fail THEN {[h EXCEPT !.threw = "system_error"]} ELSE {})
      [] op.op = "status" -> {[h EXCEPT !.res.status = op.a]}
      [] op.op = "status_message" -> {[h EXCEPT !.res.status_message = op.a]}
      [] op.op = "set_header" ->
           LET o == set_header(h.res, op.a, op.b)
           IN {[h EXCEPT !.res = r] : r \in o.go}
              \cup (IF o.abort THEN {[h EXCEPT !.threw = "abort"]} ELSE {})
      [] op.op = "throw" -> {[h EXCEPT !.threw = "exception"]}

\* cb(req, res): the calls in order, up to the first that throws
RECURSIVE RunOps(_, _, _, _, _)
RunOps(ops, h, rq, fd, fail) ==
    IF ops = <<>> \/ h.threw # "none" THEN {h}
    ELSE UNION {RunOps(Tail(ops), h2, rq, fd, fail) :
                    h2 \in RunOp(Head(ops), h, rq, fd, fail)}

-----------------------------------------------------------------------------
(* The byte streams a peer sends.                                          *)

ReqLineShort == <<"G", "E", "T", " ", "/", " ", "H", "/", "1", CR, LF>>

\* GET / HTTP/1.1\r\nHost: localhost\r\n\r\n
R_EndToEnd ==
    <<"G", "E", "T", " ", "/", " ", "H", "T", "T", "P", "/", "1", ".", "1", CR, LF,
      "H", "o", "s", "t", ":", " ", "l", "o", "c", "a", "l", "h", "o", "s", "t", CR, LF,
      CR, LF>>
\* GET /foo?x=1 HTTP/1.1\r\n\r\n
R_Query ==
    <<"G", "E", "T", " ", "/", "f", "o", "o", "?", "x", "=", "1", " ",
      "H", "T", "T", "P", "/", "1", ".", "1", CR, LF, CR, LF>>
\* two header lines whose names differ only in case
R_Dup == ReqLineShort \o <<"A", ":", " ", "1", CR, LF, "a", ":", "2", CR, LF, CR, LF>>
\* a method no route is registered for
R_Put == <<"P", "U", "T", " ", "/", " ", "H", "/", "1", CR, LF, CR, LF>>
\* bytes after the header terminator
R_Extra == ReqLineShort \o <<CR, LF, "x", "y">>
\* '\r' not followed by '\n' at the end of the request line
R_BadCR == <<"G", "E", "T", " ", "/", " ", "H", "/", "1", CR, "X", CR, LF, CR, LF>>
\* '\r' not followed by '\n' in the header terminator
R_BadEnd == ReqLineShort \o <<"A", ":", "b", CR, LF, CR, "X", LF>>
\* the peer stops in the middle of the request line
R_Incomplete == <<"G", "E", "T", " ", "/", " ">>

\* a Host header with a port, naming another host than localhost
R_Host ==
    ReqLineShort \o <<"H", "o", "s", "t", ":", " ", "a", ":", "8", CR, LF, CR, LF>>
\* the method in lower case
R_LowerGet == <<"g", "e", "t", " ", "/", " ", "H", "/", "1", CR, LF, CR, LF>>

ValidStreams == {R_EndToEnd, R_Query, R_Dup, R_Put}
\* the streams of the fair runs: one for each way a cycle goes on (answered,
\* not answered, never done, closed before done)
LiveStreams == ValidStreams \cup {R_Extra, R_BadCR, R_BadEnd, R_Incomplete}
Streams == LiveStreams \cup {R_Host, R_LowerGet}

\* a header line whose name has upper-case letters inside a word
R_ContentType ==
    ReqLineShort \o <<"C", "o", "n", "t", "e", "n", "t", "-", "T", "y", "p", "e",
                      ":", " ", "V", CR, LF, CR, LF>>
\* the streams the parser harness feeds
ParserStreams == Streams \cup {R_ContentType}

\* bytes the parser harness may feed after a stream
TailAlphabet == {CR, LF, SP, ":", "/", "?", "a"}
TailChunks == {<<c>> : c \in TailAlphabet}
                  \cup {<<c, d>> : c \in TailAlphabet, d \in TailAlphabet}

-----------------------------------------------------------------------------
(* server::listen: the background thread.                                  *)

Min(a, b) == IF a <= b THEN a ELSE b

NoCall == [op |-> "none", err |-> "none", io |-> FALSE]
Called(op, o) == [op |-> op, err |-> o.err, io |-> o.io]

SetSock(o) ==
    /\ sock_' = o.sock_
    /\ accepted_sock_' = o.accepted_sock_
    /\ fds' = o.fds
    /\ closes' = o.closes

\* a catch clause inside the while loop: the thread would accept again
ThrownMutant(op, o) ==
    /\ pc' = "accept"
    /\ SetSock(o)
    /\ err' = Called(op, o)

\* an exception leaves the try block: sock is destroyed (close) and the
\* catch clause ends the thread
Thrown(op, o) ==
    /\ pc' = "stopped"
    /\ SetSock(socket_close(o))
    /\ err' = Called(op, o)

\* what the system can answer on descriptor fd
OsAnswers(fd, answers) == IF fd \in fds THEN answers ELSE {"error"}

\* server::get(path, callback) before listen: callbacks_["GET"][path]
Registered == {[m \in {S_GET} |-> t] : t \in RouteTables}

\* the thread has constructed its socket, while its caller was still
\* inside listen
Init ==
    /\ pc = "connect"
    /\ sock_ = 0
    /\ accepted_sock_ = 0
    /\ fds = {}
    /\ closes = <<>>
    /\ err = NoCall
    /\ req = FreshRequest
    /\ res = FreshResponse
    /\ callbacks_ \in Registered
    /\ todo = {}
    /\ invoked = <<>>
    /\ wire = <<>>
    /\ stream = <<>>
    /\ pos = 0
    /\ closed = FALSE
    /\ wouldblock = 0
    /\ nconn = 0
    /\ tail = 0
    /\ caller = "listen"
    /\ port_ = Port

\* sock.connect() succeeds
Connect ==
    /\ pc = "connect"
    /\ LET o == socket_connect(SockState, "ok")
       IN SetSock(o) /\ err' = Called("connect", o)
    /\ pc' = "listen"
    /\ UNCHANGED <<req, res, callbacks_, todo, invoked, wire, stream, pos,
                   closed, wouldblock, nconn, tail,
                   caller, port_>>

\* sock.connect() throws
ConnectFail ==
    /\ pc = "connect"
    /\ \E os \in {"socket_error", "bind_error"} :
           Thrown("connect", socket_connect(SockState, os))
    /\ UNCHANGED <<req, res, callbacks_, todo, invoked, wire, stream, pos,
                   closed, wouldblock, nconn, tail,
                   caller, port_>>

\* sock.listen() succeeds
Listen ==
    /\ pc = "listen"
    /\ LET o == socket_listen(SockState, "ok")
       IN /\ o.err = "none"
          /\ SetSock(o)
          /\ err' = Called("listen", o)
    /\ pc' = "accept"
    /\ UNCHANGED <<req, res, callbacks_, todo, invoked, wire, stream, pos,
                   closed, wouldblock, nconn, tail,
                   caller, port_>>

\* sock.listen() throws
ListenFail ==
    /\ pc = "listen"
    /\ Thrown("listen", socket_listen(SockState, "error"))
    /\ UNCHANGED <<req, res, callbacks_, todo, invoked, wire, stream, pos,
                   closed, wouldblock, nconn, tail,
                   caller, port_>>

\* the request object a cycle starts with: request req;
NewRequestMutant == req
NewRequest == FreshRequest

\* sock.accept() returns a peer, and the loop body starts: request req;
Accept(peers) ==
    /\ pc = "accept"
    /\ nconn < MaxConns
    /\ LET o == socket_accept(SockState, "conn")
       IN /\ o.err = "none"
          /\ SetSock(o)
          /\ err' = Called("accept", o)
    /\ req' = NewRequest
    /\ \E b \in peers : stream' = b
    /\ pos' = 0
    /\ closed' = FALSE
    /\ wouldblock' = 0
    /\ invoked' = <<>>
    /\ wire' = <<>>
    /\ nconn' = nconn + 1
    /\ pc' = "recv"
    /\ UNCHANGED <<res, callbacks_, todo, tail, caller, port_>>

\* ::accept answers EAGAIN: the while loop of socket::accept goes round
AcceptWouldBlock ==
    /\ pc = "accept"
    /\ LET o == socket_accept(SockState, "eagain")
       IN /\ o.err = "eagain"
          /\ SetSock(o)
          /\ err' = Called("accept", o)
    /\ UNCHANGED <<pc, req, res, callbacks_, todo, invoked, wire, stream, pos,
                   closed, wouldblock, nconn, tail,
                   caller, port_>>

\* sock.accept() throws
AcceptFail ==
    /\ pc = "accept"
    /\ Thrown("accept", socket_accept(SockState, "error"))
    /\ UNCHANGED <<req, res, callbacks_, todo, invoked, wire, stream, pos,
                   closed, wouldblock, nconn, tail,
                   caller, port_>>

\* the peer closes its end after the last byte of stream
ClientClose ==
    /\ pc = "recv"
    /\ ~closed
    /\ closed' = TRUE
    /\ UNCHANGED <<pc, sock_, accepted_sock_, fds, closes, err, req, res,
                   callbacks_,
                   todo, invoked, wire, stream, pos, wouldblock, nconn, tail,
                   caller, port_>>

\* recv returns k > 0 bytes: parse_and_build, and break when state_ is done
RecvData ==
    /\ pc = "recv"
    /\ pos < Len(stream)
    /\ \E k \in 1..Min(RecvMax, Len(stream) - pos) :
         LET o == socket_recv(SockState, "data")
             r == parse_and_build(req, SubSeq(stream, pos + 1, pos + k))
         IN /\ o.err = "none"
            /\ err' = Called("recv", o)
            /\ pos' = pos + k
            /\ IF r.state = "done"
               THEN req' = [r EXCEPT !.hostname = S_Localhost] /\ pc' = "lookup"
               ELSE req' = r /\ pc' = "recv"
    /\ UNCHANGED <<sock_, accepted_sock_, fds, closes, res, callbacks_, todo,
                   invoked,
                   wire, stream, closed, wouldblock, nconn, tail,
                   caller, port_>>

\* recv returns 0: the peer has closed and nothing is left to read; break
RecvEOF ==
    /\ pc = "recv"
    /\ closed
    /\ pos = Len(stream)
    /\ LET o == socket_recv(SockState, "eof")
       IN o.err = "none" /\ err' = Called("recv", o)
    /\ pc' = "lookup"
    /\ UNCHANGED <<sock_, accepted_sock_, fds, closes, req, res, callbacks_,
                   todo,
                   invoked, wire, stream, pos, closed, wouldblock, nconn, tail,
                   caller, port_>>

\* recv returns -1 with EAGAIN: continue
RecvWouldBlock ==
    /\ pc = "recv"
    /\ ~(closed /\ pos = Len(stream))
    /\ wouldblock < MaxWouldBlock
    /\ LET o == socket_recv(SockState, "eagain")
       IN o.err = "eagain" /\ err' = Called("recv", o)
    /\ wouldblock' = wouldblock + 1
    /\ UNCHANGED <<pc, sock_, accepted_sock_, fds, closes, req, res,
                   callbacks_, todo,
                   invoked, wire, stream, pos, closed, nconn, tail,
                   caller, port_>>

\* sock.recv() throws
RecvFail ==
    /\ pc = "recv"
    /\ Thrown("recv", socket_recv(SockState, "error"))
    /\ UNCHANGED <<req, res, callbacks_, todo, invoked, wire, stream, pos,
                   closed, wouldblock, nconn, tail,
                   caller, port_>>

\* callbacks_[req.method()] and response res{req, sock}: operator[] adds an
\* empty inner map for a method that has none
Lookup ==
    /\ pc = "lookup"
    /\ callbacks_' = IF req.method \in DOMAIN callbacks_ THEN callbacks_
                     ELSE [m \in DOMAIN callbacks_ \cup {req.method} |->
                             IF m = req.method THEN <<>> ELSE callbacks_[m]]
    /\ res' = FreshResponse
    /\ todo' = DOMAIN callbacks_'[req.method]
    /\ pc' = "dispatch"
    /\ UNCHANGED <<sock_, accepted_sock_, fds, closes, err, req, invoked,
                   wire, stream,
                   pos, closed, wouldblock, nconn, tail,
                   caller, port_>>

\* one iteration of the for loop over the inner map, in the map's order:
\* std::regex{path}, regex_match, cb(req, res)
Dispatch(fail) ==
    /\ pc = "dispatch"
    /\ \E p \in todo :
         IF regex_throws(p)
         THEN /\ Thrown("regex", Outcome(SockState, "regex_error", FALSE))
              /\ UNCHANGED <<res, todo, invoked, wire>>
         ELSE IF ~regex_match(req.path, p)
         THEN /\ todo' = todo \ {p}
              /\ UNCHANGED <<pc, sock_, accepted_sock_, fds, closes, err,
                             res, invoked, wire>>
         ELSE \E h \in RunOps(HandlerOps[callbacks_[req.method][p]],
                              [res |-> res, wire |-> wire, threw |-> "none"],
                              req, accepted_sock_, fail) :
                /\ invoked' = Append(invoked, [pattern |-> p, state |-> req.state])
                /\ res' = h.res
                /\ wire' = h.wire
                /\ IF h.threw = "none"
                   THEN /\ todo' = todo \ {p}
                        /\ err' = [op |-> "callback", err |-> "none",
                                   io |-> Len(h.wire) > Len(wire)]
                        /\ UNCHANGED <<pc, sock_, accepted_sock_, fds, closes>>
                   ELSE /\ Thrown("callback", Outcome(SockState, h.threw, FALSE))
                        /\ UNCHANGED todo
    /\ UNCHANGED <<req, callbacks_, stream, pos, closed, wouldblock, nconn,
                   tail, caller, port_>>

\* the for loop is over: the loop body ends and the thread accepts again
DispatchEnd ==
    /\ pc = "dispatch"
    /\ todo = {}
    /\ pc' = "accept"
    /\ UNCHANGED <<sock_, accepted_sock_, fds, closes, err, req, res,
                   callbacks_, todo, invoked, wire, stream, pos, closed,
                   wouldblock, nconn, tail, caller, port_>>

Next ==
    \/ Connect \/ ConnectFail \/ Listen \/ ListenFail
    \/ Accept(Streams) \/ AcceptWouldBlock \/ AcceptFail
    \/ ClientClose \/ RecvData \/ RecvEOF \/ RecvWouldBlock \/ RecvFail
    \/ Lookup \/ Dispatch(TRUE) \/ DispatchEnd

Spec == Init /\ [][Next]_vars

\* the thread without failing system calls, scheduled fairly: it is the only
\* thread in the loop and nothing but a system call makes it wait
ServerStep ==
    \/ Connect \/ Listen \/ Accept(LiveStreams) \/ AcceptWouldBlock
    \/ RecvData \/ RecvEOF \/ RecvWouldBlock
    \/ Lookup \/ Dispatch(FALSE) \/ DispatchEnd

LiveNext == ServerStep \/ ClientClose

LiveSpec ==
    /\ Init /\ [][LiveNext]_vars
    /\ WF_vars(Connect) /\ WF_vars(Listen) /\ WF_vars(Accept(LiveStreams))
    /\ WF_vars(RecvData) /\ WF_vars(RecvEOF)
    /\ WF_vars(Lookup) /\ WF_vars(Dispatch(FALSE)) /\ WF_vars(DispatchEnd)

-----------------------------------------------------------------------------
(* server::listen(port) from the call on: the calling thread returns from  *)
(* listen while the background thread, whose lambda holds `port` by        *)
(* reference, constructs its socket.                                       *)

\* what the storage of the parameter `port` may hold once listen has
\* returned: the value passed, or what a later call wrote there
SlotValues == {Port, 0}

\* the streams the peers of these runs send
ListenStreams == {R_Incomplete}

\* thread_ = std::thread([&] {...}) has started the thread; the caller is
\* still inside listen and no socket object exists yet
ListenInit ==
    /\ pc = "start"
    /\ sock_ = 0
    /\ accepted_sock_ = 0
    /\ fds = {}
    /\ closes = <<>>
    /\ err = NoCall
    /\ req = FreshRequest
    /\ res = FreshResponse
    /\ callbacks_ \in Registered
    /\ todo = {}
    /\ invoked = <<>>
    /\ wire = <<>>
    /\ stream = <<>>
    /\ pos = 0
    /\ closed = FALSE
    /\ wouldblock = 0
    /\ nconn = 0
    /\ tail = 0
    /\ caller = "listen"
    /\ port_ = 0

\* the calling thread returns from listen: the parameter's lifetime ends
ListenReturn ==
    /\ caller = "listen"
    /\ caller' = "returned"
    /\ UNCHANGED <<pc, sock_, accepted_sock_, fds, closes, err, req, res,
                   callbacks_, todo, invoked, wire, stream, pos, closed,
                   wouldblock, nconn, tail, port_>>

\* socket sock{port}: port_ is initialised from the captured reference
Construct ==
    /\ pc = "start"
    /\ port_' \in (IF caller = "listen" THEN {Port} ELSE SlotValues)
    /\ pc' = "connect"
    /\ UNCHANGED <<sock_, accepted_sock_, fds, closes, err, req, res,
                   callbacks_, todo, invoked, wire, stream, pos, closed,
                   wouldblock, nconn, tail, caller>>

ListenNext ==
    \/ ListenReturn \/ Construct
    \/ Connect \/ ConnectFail \/ Listen \/ ListenFail
    \/ Accept(ListenStreams) \/ AcceptWouldBlock \/ AcceptFail
    \/ ClientClose \/ RecvData \/ RecvEOF \/ RecvWouldBlock \/ RecvFail
    \/ Lookup \/ Dispatch(TRUE) \/ DispatchEnd

ListenSpec == ListenInit /\ [][ListenNext]_vars

-----------------------------------------------------------------------------
(* A caller of request::parse_and_build: one fresh request, the bytes of   *)
(* one stream in any chunking, then further bytes.                         *)

ParserInit ==
    /\ pc = "parser"
    /\ sock_ = 0
    /\ accepted_sock_ = 0
    /\ fds = {}
    /\ closes = <<>>
    /\ err = NoCall
    /\ req = FreshRequest
    /\ res = FreshResponse
    /\ callbacks_ = <<>>
    /\ todo = {}
    /\ invoked = <<>>
    /\ wire = <<>>
    /\ stream \in ParserStreams
    /\ pos = 0
    /\ closed = FALSE
    /\ wouldblock = 0
    /\ nconn = 0
    /\ tail = 0
    /\ caller = "none"
    /\ port_ = DefaultPort

\* parse_and_build on the next k bytes of the stream
Feed ==
    /\ pc = "parser"
    /\ pos < Len(stream)
    /\ \E k \in 1..Min(RecvMax, Len(stream) - pos) :
         /\ req' = parse_and_build(req, SubSeq(stream, pos + 1, pos + k))
         /\ pos' = pos + k
    /\ UNCHANGED <<pc, sock_, accepted_sock_, fds, closes, err, res,
                   callbacks_, todo,
                   invoked, wire, stream, closed, wouldblock, nconn, tail,
                   caller, port_>>

\* parse_and_build on bytes that follow the stream
FeedTail ==
    /\ pc = "parser"
    /\ pos = Len(stream)
    /\ \E c \in TailChunks :
         /\ tail + Len(c) <= MaxTail
         /\ req' = parse_and_build(req, c)
         /\ tail' = tail + Len(c)
    /\ UNCHANGED <<pc, sock_, accepted_sock_, fds, closes, err, res,
                   callbacks_, todo,
                   invoked, wire, stream, pos, closed, wouldblock, nconn,
                   caller, port_>>

ParserNext == Feed \/ FeedTail

ParserSpec == ParserInit /\ [][ParserNext]_vars

-----------------------------------------------------------------------------
(* A caller of nek::socket: the public operations in any order.            *)

SocketInit ==
    /\ pc = "api"
    /\ sock_ = 0
    /\ accepted_sock_ = 0
    /\ fds = {}
    /\ closes = <<>>
    /\ err = NoCall
    /\ req = FreshRequest
    /\ res = FreshResponse
    /\ callbacks_ = <<>>
    /\ todo = {}
    /\ invoked = <<>>
    /\ wire = <<>>
    /\ stream = <<>>
    /\ pos = 0
    /\ closed = FALSE
    /\ wouldblock = 0
    /\ nconn = 0
    /\ tail = 0
    /\ caller = "none"
    /\ port_ = DefaultPort

ApiRest == <<pc, req, res, callbacks_, todo, invoked, stream, pos, closed,
             wouldblock, nconn, tail,
             caller, port_>>

ApiConnect ==
    /\ pc = "api"
    /\ Cardinality(fds) < MaxFds
    /\ \E os \in {"ok", "socket_error", "bind_error"} :
         LET o == socket_connect(SockState, os)
         IN SetSock(o) /\ err' = Called("connect", o)
    /\ UNCHANGED <<ApiRest, wire>>

ApiListen ==
    /\ pc = "api"
    /\ \E os \in OsAnswers(sock_, {"ok", "error"}) :
         LET o == socket_listen(SockState, os)
         IN SetSock(o) /\ err' = Called("listen", o)
    /\ UNCHANGED <<ApiRest, wire>>

ApiAccept ==
    /\ pc = "api"
    /\ \E os \in OsAnswers(sock_, {"conn", "eagain", "error"}) :
         LET o == socket_accept(SockState, os)
         IN /\ os = "conn" => Cardinality(fds) < MaxFds
            /\ SetSock(o)
            /\ err' = Called("accept", o)
    /\ UNCHANGED <<ApiRest, wire>>

ApiRecv ==
    /\ pc = "api"
    /\ \E os \in OsAnswers(accepted_sock_, {"data", "eof", "eagain", "error"}) :
         LET o == socket_recv(SockState, os)
         IN SetSock(o) /\ err' = Called("recv", o)
    /\ UNCHANGED <<ApiRest, wire>>

\* descriptor 0 is the standard input of the process, and may be a socket
ApiSend ==
    /\ pc = "api"
    /\ Len(wire) < MaxWrites
    /\ \E os \in IF accepted_sock_ = 0 THEN {"ok", "error"}
                 ELSE OsAnswers(accepted_sock_, {"ok", "error"}) :
         LET o == socket_send(SockState, os)
         IN /\ SetSock(o)
            /\ err' = Called("send", o)
            /\ wire' = IF o.err = "none"
                       THEN Append(wire, [fd |-> accepted_sock_, data |-> B_Index,
                                          body |-> B_Index])
                       ELSE wire
    /\ UNCHANGED ApiRest

\* close(), called explicitly or by the destructor after an explicit close
ApiClose ==
    /\ pc = "api"
    /\ \A x \in DOMAIN closes : closes[x] < MaxCloses
    /\ SetSock(socket_close(SockState))
    /\ err' = [op |-> "close", err |-> "none", io |-> TRUE]
    /\ UNCHANGED <<ApiRest, wire>>

SocketNext ==
    ApiConnect \/ ApiListen \/ ApiAccept \/ ApiRecv \/ ApiSend \/ ApiClose

SocketSpec == SocketInit /\ [][SocketNext]_vars

-----------------------------------------------------------------------------
(* A handler's view of nek::response: the public operations in any order   *)
(* on the response of one parsed request, bound to an accepted peer.       *)

\* header names and values, status codes and messages the caller passes
HeaderNames == {H_Name, <<"x", "-", "a">>, <<"B">>}
HeaderValues == {H_Value, <<"2">>}
StatusCodes == {200, 400, 404, 500}
S_Hey == <<"H", "e", "y">>
StatusMessages == {<<>>, S_Hey}
Bodies == {<<>>, B_Index}

ResponseInit ==
    /\ pc = "response"
    /\ sock_ = 3
    /\ accepted_sock_ = 4
    /\ fds = {3, 4}
    /\ closes = <<>>
    /\ err = NoCall
    /\ req \in {parse_and_build(FreshRequest, b) : b \in {R_EndToEnd, R_Put}}
    /\ res = FreshResponse
    /\ callbacks_ = <<>>
    /\ todo = {}
    /\ invoked = <<>>
    /\ wire = <<>>
    /\ stream = <<>>
    /\ pos = 0
    /\ closed = FALSE
    /\ wouldblock = 0
    /\ nconn = 1
    /\ tail = 0
    /\ caller = "none"
    /\ port_ = Port

ResRest == <<pc, sock_, accepted_sock_, fds, closes, req, callbacks_, todo,
             invoked, stream, pos, closed, wouldblock, nconn, tail,
             caller, port_>>

\* the process is running: no call has aborted it
Alive == pc = "response" /\ err.err # "abort"

\* the last call, with the header name passed and the value involved
HeaderCall(op, e, n, v) ==
    [op |-> op, err |-> e, io |-> FALSE, arg |-> n, ret |-> v]

ResSetHeader ==
    /\ Alive
    /\ \E n \in HeaderNames, v \in HeaderValues :
         LET o == set_header(res, n, v)
         IN \/ \E r \in o.go :
                  res' = r /\ err' = HeaderCall("set_header", "none", n, v)
            \/ /\ o.abort
               /\ res' = res
               /\ err' = HeaderCall("set_header", "abort", n, v)
    /\ UNCHANGED <<ResRest, wire>>

ResGetHeader ==
    /\ Alive
    /\ \E n \in HeaderNames :
         LET o == get_header(res, n)
         IN \/ \E g \in o.go : err' = HeaderCall("get_header", g.err, n, g.ret)
            \/ o.abort /\ err' = HeaderCall("get_header", "abort", n, <<>>)
    /\ UNCHANGED <<ResRest, res, wire>>

ResStatus ==
    /\ Alive
    /\ \E code \in StatusCodes : res' = [res EXCEPT !.status = code]
    /\ err' = [op |-> "status", err |-> "none", io |-> FALSE]
    /\ UNCHANGED <<ResRest, wire>>

ResStatusMessage ==
    /\ Alive
    /\ \E m \in StatusMessages : res' = [res EXCEPT !.status_message = m]
    /\ err' = [op |-> "status_message", err |-> "none", io |-> FALSE]
    /\ UNCHANGED <<ResRest, wire>>

ResSend ==
    /\ Alive
    /\ Len(wire) < MaxWrites
    /\ \E body \in Bodies, os \in {"ok", "error"} :
         LET o == socket_send(SockState, os)
         IN /\ err' = Called("send", o)
            /\ IF o.err = "none"
               THEN \E b \in send_bytes(req, res, body) :
                      wire' = Append(wire, [fd |-> accepted_sock_, data |-> b,
                                            body |-> body])
               ELSE wire' = wire
    /\ UNCHANGED <<ResRest, res>>

ResponseNext ==
    ResSetHeader \/ ResGetHeader \/ ResStatus \/ ResStatusMessage \/ ResSend

ResponseSpec == ResponseInit /\ [][ResponseNext]_vars

-----------------------------------------------------------------------------
(* Reading a written response back, as a client would.                     *)

\* where the blank line starts: the first CRLF CRLF, 0 if none
HeadEnd(b) == Search(b, CRLF \o CRLF)

\* the bytes after the blank line
WireBody(b) == SubSeq(b, HeadEnd(b) + 4, Len(b))

\* the positions at which a line of the head starts
LineStarts(b) ==
    {1} \cup {i \in 3..HeadEnd(b) : SubSeq(b, i - 2, i - 1) = CRLF}

\* the line of the head that starts at position i, without its CRLF
LineAt(b, i) ==
    LET rest == SubSeq(b, i, Len(b))
    IN SubSeq(rest, 1, Search(rest, CRLF) - 1)

\* the lines of the head, the status line included
HeadLines(b) == {LineAt(b, i) : i \in LineStarts(b)}

\* the value of a decimal numeral; -1 if a byte is not a digit
RECURSIVE ParseDec(_)
ParseDec(d) ==
    IF d = <<>> THEN 0
    ELSE LET last == d[Len(d)]
             init == ParseDec(SubSeq(d, 1, Len(d) - 1))
         IN IF init < 0 \/ ~\E v \in 0..9 : DecDigit[v + 1] = last THEN -1
            ELSE 10 * init + (CHOOSE v \in 0..9 : DecDigit[v + 1] = last)

\* the values of the Content-Length lines of the head
ContentLengths(b) ==
    {SubSeq(l, Len(S_ContentLength) + 3, Len(l)) :
        l \in {x \in HeadLines(b) : StartsWith(x, S_ContentLength \o ColonSpace)}}

S_Http11_200 == <<"H", "T", "T", "P", "/", "1", ".", "1", " ", "2", "0", "0", " ", "O", "K">>

-----------------------------------------------------------------------------
(* The claims.                                                             *)

\* C1: chunk-invariance.  Whatever the chunks in which a valid request was
\* fed to one fresh request, once all of it is fed the request equals the one
\* a single parse_and_build call on the whole stream builds.
C1_ChunkInvariance ==
    (pc = "parser" /\ stream \in ValidStreams /\ pos = Len(stream) /\ tail = 0)
        => req = parse_and_build(FreshRequest, stream)

\* C2: every handler invoked in a cycle saw the parser state done.
C2_DispatchOnlyWhenDone ==
    \A i \in 1..Len(invoked) : invoked[i].state = "done"

\* C3: from cr or crlfcr a byte other than '\n' leads to invalid, and from
\* done or invalid no further bytes change the state or any field.
C3_TerminalAbsorbing ==
    pc = "parser" =>
        /\ req.state \in {"cr", "crlfcr"} =>
               \A c \in TailAlphabet \ {LF} :
                   parse_and_build(req, <<c>>).state = "invalid"
        /\ req.state \in {"done", "invalid"} =>
               \A c \in TailChunks : parse_and_build(req, c) = req

\* C3 witness: bytes were fed to a request that is invalid
C3_Witness == pc = "parser" /\ req.state = "invalid" /\ tail > 0

\* C4: when the first byte of a connection is about to be fed, the request is
\* the default-constructed one, and the response the handlers of a cycle
\* start with has status 200, no message and no headers.
C4_NoLeak ==
    /\ (pc = "recv" /\ pos = 0) => req = FreshRequest
    /\ (pc = "dispatch" /\ invoked = <<>>) => res = FreshResponse

\* C4 witness: the second connection starts after a first one whose request
\* was parsed far enough to look its method up
C4_Witness ==
    /\ pc = "recv" /\ pos = 0 /\ nconn = 2
    /\ Cardinality(DOMAIN callbacks_) > 1

\* the response the claim C5 describes, written on the current connection
GoodResponse ==
    /\ Len(wire) = 1
    /\ wire[1].fd = accepted_sock_
    /\ StartsWith(wire[1].data, S_Http11_200 \o CRLF)
    /\ ContentLengths(wire[1].data) = {to_string(Len(B_Index))}
    /\ WireBody(wire[1].data) = B_Index

IndexOnly == [p \in {P_Root} |-> "index"]

\* C5: with only the handler for "/" registered, which sends B_Index, a
\* connection on which the peer sends R_EndToEnd is eventually answered with
\* HTTP/1.1 200 OK, Content-Length: 2 and the body B_Index.
C5_EndToEnd ==
    \A n \in 1..MaxConns :
        (pc = "recv" /\ nconn = n /\ stream = R_EndToEnd /\ callbacks_[S_GET] = IndexOnly)
            ~> (nconn = n /\ GoodResponse)

\* C5 witness: the response is on the wire after recv answered EAGAIN
C5_Witness ==
    /\ stream = R_EndToEnd /\ callbacks_[S_GET] = IndexOnly
    /\ wouldblock > 0 /\ GoodResponse

\* C6: once the request line of R_Query is consumed, method, path, protocol
\* and version are those of the line and original_url is the whole target,
\* query included.
C6_RequestLine ==
    (pc = "parser" /\ stream = R_Query /\ pos = Len(stream))
        => /\ req.method = S_GET
           /\ req.path = P_Foo
           /\ req.protocol = <<"H", "T", "T", "P">>
           /\ req.http_version = <<"1", ".", "1">>
           /\ req.original_url = P_Foo \o <<"?", "x", "=", "1">>

\* C7: every response written has a Content-Length line exactly when the body
\* given to send is not empty, the line holds the length of that body, and
\* the bytes after the blank line are that body.
C7_ContentLength ==
    \A i \in 1..Len(wire) :
        LET w == wire[i]
        IN /\ (ContentLengths(w.data) # {}) <=> (w.body # <<>>)
           /\ \A v \in ContentLengths(w.data) : ParseDec(v) = Len(w.body)
           /\ WireBody(w.data) = w.body

\* C7 witness: in one cycle a response without a body and one with a body of
\* 13 bytes, the second after a header line
C7_Witness ==
    /\ Len(wire) = 2
    /\ wire[1].body = <<>>
    /\ wire[2].body = B_Other
    /\ ColonSpace \o H_Value \in HeadLines(wire[2].data)

\* C8: at most one accepted descriptor is open at any time.
C8_OneAccepted == Cardinality(fds \ {sock_}) <= 1

\* C9: recv and send without an accepted peer, and listen and accept without
\* a listening descriptor, end in a logic error; recv and send then make no
\* system call.
C9_Preconditions ==
    pc = "api" =>
        /\ (err.op \in {"recv", "send"} /\ accepted_sock_ = 0)
               => (err.err = "logic_error" /\ ~err.io)
        /\ (err.op \in {"listen", "accept"} /\ sock_ = 0)
               => err.err = "logic_error"

\* C10: at most one send writes to the connection in a cycle.
C10_SendOnce == Len(wire) <= 1

\* C11: when the thread is back at accept after a connection, a response
\* was written to that connection.
C11_AnsweredBeforeNextAccept ==
    (pc = "accept" /\ nconn >= 1) => Len(wire) >= 1

\* C12: a call that ended in an error other than would-block has ended the
\* thread, would-block leaves the thread in the loop it was in, and the
\* ended thread takes no further step.
C12_ErrorPropagation ==
    /\ [](err.err \notin {"none", "eagain"} => pc = "stopped")
    /\ [](err.err = "eagain" => pc \in {"accept", "recv"})
    /\ [][pc = "stopped" => UNCHANGED vars]_vars

\* C12 witness: a send inside a handler failed on the second connection and
\* the thread has ended
C12_Witness ==
    /\ pc = "stopped" /\ nconn = 2
    /\ err.op = "callback" /\ err.err = "system_error"

\* C13: no descriptor number is passed to ::close more than once after one
\* creation.
C13_CloseOnce == \A x \in DOMAIN closes : closes[x] <= 1

\* C14: no step of the thread changes the route table.
C14_RouteTableReadOnly == [][callbacks_' = callbacks_]_vars

\* a name with its upper-case letters lower-cased
LowerStr(n) == [i \in 1..Len(n) |-> tolower(n[i])]

\* C15: response headers are keyed by their lower-cased name.  After
\* set_header(n, v) there is an entry under the lower-cased n; get_header(n)
\* returns the entry under the lower-cased n and fails when there is none;
\* send writes a line `name: value` for every entry, the name in lower case.
C15_HeaderNamesLowerCased ==
    pc = "response" =>
        LET k == LowerStr(err.arg)
        IN /\ (err.op = "set_header" /\ err.err = "none")
                  => k \in DOMAIN res.headers
           /\ (err.op = "get_header" /\ err.err # "abort")
                  => IF k \in DOMAIN res.headers
                     THEN err.err = "none" /\ err.ret = res.headers[k]
                     ELSE err.err = "out_of_range"
           /\ (err.op = "send" /\ err.err = "none")
                  => \A h \in DOMAIN res.headers :
                         /\ h = LowerStr(h)
                         /\ h \o ColonSpace \o res.headers[h]
                                \in HeadLines(wire[Len(wire)].data)

S_Host == <<"h", "o", "s", "t">>

\* the prefix of v before its first ':', v itself when it has none
BeforeColon(v) ==
    IF \E i \in 1..Len(v) : v[i] = ":"
    THEN SubSeq(v, 1, (CHOOSE i \in 1..Len(v) :
                           v[i] = ":" /\ \A j \in 1..(i - 1) : v[j] # ":") - 1)
    ELSE v

\* C16: a request that has reached done and has a Host header has the
\* hostname of that header, without the port.
C16_Hostname ==
    (pc \in {"lookup", "dispatch"} /\ req.state = "done"
        /\ S_Host \in DOMAIN req.headers)
        => req.hostname = BeforeColon(req.headers[S_Host])

S_content_type == <<"c", "o", "n", "t", "e", "n", "t", "-", "t", "y", "p", "e">>
L_ContentType ==
    <<"C", "o", "n", "t", "e", "n", "t", "-", "T", "y", "p", "e", ":", " ", "V">>

\* C17: no key of the header map holds an upper-case letter, and where a
\* header line may start, the line `Content-Type: V` fed in one chunk leaves
\* an entry content-type, with the value V unless the name was there before.
C17_HeaderKeysLowerCase ==
    pc = "parser" =>
        /\ \A k \in DOMAIN req.headers : \A i \in 1..Len(k) :
               \A j \in 1..Len(UpperCase) : k[i] # UpperCase[j]
        /\ req.state = "crlf" =>
               LET r == parse_and_build(req, L_ContentType \o <<CR>>)
               IN /\ S_content_type \in DOMAIN r.headers
                  /\ S_content_type \notin DOMAIN req.headers
                         => r.headers[S_content_type] = <<"V">>

\* C17 witness: the stream with the Content-Type line was fed to the end and
\* the request is done with the entry content-type -> V
C17_Witness ==
    /\ pc = "parser" /\ stream = R_ContentType /\ pos = Len(stream)
    /\ req.state = "done"
    /\ S_content_type \in DOMAIN req.headers
    /\ req.headers[S_content_type] = <<"V">>

\* the status line the claim C18 describes for the response as it is now
ExpectedStatusLine ==
    LET code == CASE res.status = 200 -> <<"2", "0", "0">>
                  [] res.status = 400 -> <<"4", "0", "0">>
                  [] res.status = 404 -> <<"4", "0", "4">>
                  [] res.status = 500 -> <<"5", "0", "0">>
        text == CASE res.status = 200 -> <<"O", "K">>
                  [] res.status = 400 ->
                       <<"B", "a", "d", " ", "R", "e", "q", "u", "e", "s", "t">>
                  [] res.status = 404 ->
                       <<"N", "o", "t", " ", "F", "o", "u", "n", "d">>
                  [] OTHER -> <<>>
        message == IF res.status_message = <<>> THEN text ELSE res.status_message
    IN req.protocol \o <<"/">> \o req.http_version \o <<" ">> \o code
           \o <<" ">> \o message

\* C18: the first line a send writes is protocol/version, the status code
\* and the message: the override when one was set, else the text of the
\* default table for the code, empty for a code the table does not hold.
C18_StatusLine ==
    (pc = "response" /\ err.op = "send" /\ err.err = "none")
        => LineAt(wire[Len(wire)].data, 1) = ExpectedStatusLine

\* C18 witness: a response with status 404 and no message was sent, and its
\* first line ends in 404 Not Found
C18_Witness ==
    /\ pc = "response" /\ err.op = "send" /\ err.err = "none"
    /\ res.status = 404 /\ res.status_message = <<>>
    /\ LET l == LineAt(wire[Len(wire)].data, 1)
       IN SubSeq(l, Len(l) - 13, Len(l))
              = <<" ", "4", "0", "4", " ", "N", "o", "t", " ", "F", "o", "u", "n", "d">>

\* the transition table of the parser, row by row: a = [r, hb] with hb the
\* pending (name, value) of the header line being read, c the byte consumed.
\* A commit adds the pair when the map has no entry of that name.
TableStep(a, c) ==
    LET s == a.r.state
        to(n) == [a EXCEPT !.r.state = n]
    IN CASE s = "method" ->
              IF c = " " THEN to("path")
              ELSE [a EXCEPT !.r.method = @ \o <<c>>]
         [] s = "path" ->
              IF c = " " THEN [to("protocol") EXCEPT !.r.original_url = a.r.path]
              ELSE IF c = "?" THEN to("query")
              ELSE [a EXCEPT !.r.path = @ \o <<c>>]
         [] s = "query" ->
              IF c = " " THEN [to("protocol") EXCEPT !.r.original_url = a.r.path]
              ELSE a
         [] s = "protocol" ->
              IF c = "/" THEN to("http_version")
              ELSE [a EXCEPT !.r.protocol = @ \o <<c>>]
         [] s = "http_version" ->
              IF c = "\r" THEN to("cr")
              ELSE [a EXCEPT !.r.http_version = @ \o <<c>>]
         [] s = "cr" -> IF c = "\n" THEN to("crlf") ELSE to("invalid")
         [] s = "crlf" ->
              IF c = "\r" THEN to("crlfcr")
              ELSE [to("header_key") EXCEPT !.hb.first = @ \o LowerStr(<<c>>)]
         [] s = "header_key" ->
              IF c = ":" THEN to("header_value")
              ELSE [a EXCEPT !.hb.first = @ \o LowerStr(<<c>>)]
         [] s = "header_value" ->
              IF c = " " /\ a.hb.second = <<>> THEN a
              ELSE IF c = "\r"
              THEN [r |-> [a.r EXCEPT
                             !.state = "cr",
                             !.headers =
                                 IF a.hb.first \in DOMAIN a.r.headers THEN @
                                 ELSE [k \in DOMAIN @ \cup {a.hb.first} |->
                                         IF k = a.hb.first THEN a.hb.second
                                         ELSE @[k]]],
                    hb |-> [first |-> <<>>, second |-> <<>>]]
              ELSE [a EXCEPT !.hb.second = @ \o <<c>>]
         [] s = "crlfcr" -> IF c = "\n" THEN to("done") ELSE to("invalid")
         [] s \in {"done", "invalid"} -> a

\* the pending header a call can hold in parser state s
Pending(s) ==
    IF s = "header_key"
    THEN {[first |-> f, second |-> <<>>] : f \in {<<>>, <<"a">>, <<"b">>}}
    ELSE IF s = "header_value"
    THEN {[first |-> f, second |-> v] : f \in {<<>>, <<"a">>, <<"b">>},
                                         v \in {<<>>, <<"1">>}}
    ELSE {[first |-> <<>>, second |-> <<>>]}

\* the bytes tried in every state
TableBytes == TailAlphabet \cup {"A"}

\* C19: in every reachable parser state, with every pending header the state
\* allows and for every byte, one iteration of the loop of parse_and_build
\* is the row of the transition table; the loop consumes the bytes of a
\* chunk one per transition, in order; and in state query a byte other than
\* ' ' changes nothing.
C19_TransitionTable ==
    (pc = "parser" /\ req.state # "body") =>
        /\ \A hb \in Pending(req.state) :
             LET a == [r |-> req, hb |-> hb]
             IN /\ \A c \in TableBytes : ParseByte(a, c) = TableStep(a, c)
                /\ \A c \in TableBytes, d \in TableBytes :
                     ParseLoop(a, <<c, d>>) = TableStep(TableStep(a, c), d)
        /\ req.state = "query" =>
               \A c \in TableBytes \ {" "} : parse_and_build(req, <<c>>) = req

\* C19 witness: a chunk of R_Query ended inside the query
C19_Witness ==
    /\ pc = "parser" /\ stream = R_Query
    /\ req.state = "query" /\ pos < Len(stream)

\* the patterns of the model that match the whole of a path
WholeMatches(path) ==
    IF path = <<"/">> THEN {<<"/">>, <<"/", ".", "*">>, <<"/", "*">>}
    ELSE IF path = <<"/", "f", "o", "o">>
    THEN {<<"/", ".", "*">>, <<"/", "f", "o", "o">>}
    ELSE {}

\* the patterns registered under exactly the method m
RegisteredFor(m) ==
    IF m = <<"G", "E", "T">> THEN DOMAIN callbacks_[m] ELSE {}

\* the handler the i-th invocation of the cycle ran
InvokedHandler(i) == callbacks_[req.method][invoked[i].pattern]

\* how many of the first n invocations wrote a response
RECURSIVE SendsBefore(_)
SendsBefore(n) ==
    IF n = 0 THEN 0
    ELSE SendsBefore(n - 1)
         + (IF InvokedHandler(n) \in {"index", "notfound", "empty"} THEN 1 ELSE 0)

\* C20: while and after the handlers of a request run, the handlers invoked
\* are, each once, those registered under the request's method whose pattern
\* the loop has visited and matches the whole path; and a header set by a
\* handler is on every response a later handler of the cycle writes.
C20_RouteDispatch ==
    (pc \in {"dispatch", "accept"} /\ nconn >= 1) =>
        LET due == (RegisteredFor(req.method) \ todo) \cap WholeMatches(req.path)
        IN /\ {invoked[i].pattern : i \in 1..Len(invoked)} = due
           /\ Len(invoked) = Cardinality(due)
           /\ \A i \in 1..Len(invoked) :
                InvokedHandler(i) = "header" =>
                    \A w \in (SendsBefore(i) + 1)..Len(wire) :
                        \E l \in HeadLines(wire[w].data) :
                            /\ Len(l) >= 3
                            /\ SubSeq(l, Len(l) - 2, Len(l)) = <<":", " ", "1">>

\* C20 witness: the three handlers registered for "/", "/.*" and "/*" ran on
\* a request for "/", the one that sets a header first, and the cycle is over
C20_Witness ==
    /\ pc = "accept" /\ nconn >= 1
    /\ Len(invoked) = 3 /\ InvokedHandler(1) = "header"
    /\ Len(wire) = 2

\* C21: the parser is never in state body and the body of the request is
\* empty, whatever was fed and in whatever chunks.
C21_BodyUnreachable ==
    pc = "parser" => (req.state # "body" /\ req.body = <<>>)

\* C21 witness: the stream with bytes after the header terminator was fed to
\* its end, further bytes were fed in a later call, and the request is done
C21_Witness ==
    /\ pc = "parser" /\ stream = R_Extra /\ pos = Len(stream) /\ tail > 0
    /\ req.state = "done" /\ req.body = <<>>

\* C22: no call of parse_and_build changes or removes an entry of the header
\* map, and where a header line may start, a line that repeats the name of
\* an entry, with another value, leaves the map as it is.
C22_FirstValueWins ==
    /\ [][pc = "parser" =>
            \A k \in DOMAIN req.headers :
                k \in DOMAIN req'.headers /\ req'.headers[k] = req.headers[k]]_vars
    /\ []((pc = "parser" /\ req.state = "crlf") =>
            \A k \in DOMAIN req.headers \ {<<>>} :
                parse_and_build(req, k \o <<":", "Z", CR>>).headers = req.headers)

\* C22 witness: both header lines of R_Dup, which spell the same name, were
\* fed, and the map holds that name once, with the value of the first line
C22_Witness ==
    /\ pc = "parser" /\ stream = R_Dup /\ pos = Len(stream)
    /\ req.state = "done"
    /\ DOMAIN req.headers = {<<"a">>}
    /\ req.headers[<<"a">>] = <<"1">>

\* C23: the listening socket of the background thread is created for the
\* port that was passed to listen.
C23_ListenPort == sock_ > 0 => port_ = Port

====
